---- MODULE Spec2Model ----
(***************************************************************************)
(* The client-side voice interaction engine of granitalent                 *)
(* (frontend/src/components/InterviewInterface.jsx) as a state machine.    *)
(*                                                                         *)
(* The variables are the component's refs and the React state the engine   *)
(* reads, the browser objects it drives (socket, recorder, audio element,  *)
(* timers, file readers) and the messages put on the transport.  Every     *)
(* JavaScript callback is one action: it runs to completion, together with  *)
(* the promise continuations (microtasks) it releases.  The functions of   *)
(* the component are operators from a state record to a state record, so   *)
(* that a handler is the composition of the functions it calls.            *)
(*                                                                         *)
(* Conventions.  A ref holding null or a timestamp holds 0 for null        *)
(* (the code tests them for truthiness and subtracts them, and JavaScript  *)
(* coerces null to 0).  Date.now() is the variable now; it starts at Epoch *)
(* and only grows.  The React states isRecording and isListening are read  *)
(* from the refs of the same name: the code always sets both together.     *)
(* A setTimeout callback may run at any step after it was scheduled: the   *)
(* events it races with (message arrival, playback end, user input) are    *)
(* not tied to the clock.                                                  *)
(***************************************************************************)
EXTENDS Integers, Sequences, FiniteSets, TLC

\* ---------------------------------------------------------------- constants
SILENCE_DURATION == 2500
SPEECH_MIN_DURATION == 600
MAX_RECORDING_DURATION == 60000
RESPONSE_DEBOUNCE_MS == 2000
FORCE_STOP_AFTER_MS == 45000
LOW_ACTIVITY_TIMEOUT_MS == 8000
MIN_SPEECH_VOLUME == 35
CLICK_PEAK == 200
CLICK_AVERAGE == 20
SEND_GUARD_MS == 300
PREFIX_LEN == 50
PREFIX_MIN == 20
\* number of frequency bins in relevantData = dataArray.slice(2, 128)
BAND_BINS == 126
\* the settings of the plain front end (frontend/app.js)
APP_SILENCE_THRESHOLD == 35
APP_SILENCE_DURATION == 1000
APP_SPEECH_MIN_DURATION == 300
APP_MAX_RECORDING_DURATION == 30000

\* ------------------------------------------------------------------- bounds
\* Date.now() at the first step; larger than every window of the code, as a
\* real clock is.
Epoch == 100000
\* The clock readings of one run: callbacks run at Epoch, ShortStep later
\* (less than SPEECH_MIN_DURATION after Epoch) and LongStep after that (more
\* than SILENCE_DURATION later).
ShortStep == 500
LongStep == 2600
\* recorders created in one run, data chunks one recorder delivers with
\* size > 0, server error messages in one run, interviews started in one run
MaxRecordings == 2
MaxChunks == 2
MaxErrors == 2
MaxSessions == 2

VARIABLES
    \* React state
    connected, isEndingInterview, assessment,
    conversation,   \* number of interviewer entries of the conversation list
    \* refs
    wsRef, audioContextRef, analyserRef, mediaStreamRef, mediaRecorderRef,
    audioChunksRef, currentAudioRef, conversationIdRef, vadIntervalRef,
    silenceStartRef, speechStartRef, recordingStartTimeRef,
    streamingStartedRef, isStreamingModeRef, isAudioPlayingRef,
    pendingListenRef, isListeningRef, isRecordingRef, lastResponseTimeRef,
    lastResponseTextRef, processingResponseRef, sendingAudioRef,
    lastAudioSendTimeRef, audioQueueRef, isPlayingQueueRef,
    lastStrongSpeechRef,
    \* browser objects
    now,            \* Date.now()
    lastTickAt,     \* Date.now() at the last callback of the VAD interval
    wsReady,        \* readyState of the socket made by the last connectWebSocket
    closeCapture,   \* isEndingInterview and assessment as ws.onclose captured them
    recState,       \* state of the recorder mediaRecorderRef points to
    activeRecorders, \* the recorders whose state is "recording"
    recCount,       \* chunks with size > 0 that recorder has delivered so far
    recStartedAt,   \* Date.now() when the recorder that is recording was started
    failsafeLog,    \* the failsafe whose message the last tick logged, if any
    recEvents,      \* dataavailable/stop tasks queued by MediaRecorder.stop()
    playback,       \* the promise of playAudioInternal: idle, playing, settle, stalled
    audioElements,  \* how many Audio elements play or are in the delay after their end
    droppedAudio,   \* how many queued items playAudio has cleared unplayed
    ignored,        \* text and arrival time of the last response logged as ignored
    runner,         \* the message handler suspended in processAudioQueue
    listenTimers,   \* pending setTimeout(startListening, 500) of processAudioQueue
    errorTimers,    \* pending setTimeout(startListening, 1000) of the error handler
    assessTimer,    \* the 15 s fallback timer of endInterview, with its captured flag
    chunkReads,     \* FileReaders of sendAudioChunk still encoding
    batchReads,     \* FileReaders of sendAudio still encoding, with their 10 s timer
    liveStreams,    \* microphone streams whose tracks have not been stopped
    \* the server end of the transport
    wire,           \* messages the last callback put on the transport, in order
    owed,           \* replies the server still owes on the current connection
    streams,        \* per recorder: was its audio_stream_start sent, and has a
                    \* stream_ready been received since ("unsent", "sent", "ready")
    committed,      \* the recorders whose audio_commit was put on the transport
    \* the voice activity detection of the plain front end (frontend/app.js),
    \* which a page runs instead of the component: its globals as one record
    legacy,
    \* run counters
    sessionNo, recNo, errNo

vars == <<connected, isEndingInterview, assessment, conversation, wsRef, audioContextRef,
          analyserRef, mediaStreamRef, mediaRecorderRef, audioChunksRef,
          currentAudioRef, conversationIdRef, vadIntervalRef, silenceStartRef,
          speechStartRef, recordingStartTimeRef, streamingStartedRef,
          isStreamingModeRef, isAudioPlayingRef, pendingListenRef,
          isListeningRef, isRecordingRef, lastResponseTimeRef,
          lastResponseTextRef, processingResponseRef, sendingAudioRef,
          lastAudioSendTimeRef, audioQueueRef, isPlayingQueueRef,
          lastStrongSpeechRef, now, lastTickAt, wsReady, closeCapture, recState,
          activeRecorders, recCount, recStartedAt, failsafeLog,
          recEvents, playback, audioElements, droppedAudio, ignored, runner, listenTimers, errorTimers, assessTimer, chunkReads,
          batchReads, liveStreams, wire, owed, streams, committed, legacy, sessionNo, recNo, errNo>>

\* The state as one record, for the operators that model the functions.  A
\* callback starts with nothing put on the transport yet.
State ==
    [connected |-> connected, isEndingInterview |-> isEndingInterview,
     assessment |-> assessment, conversation |-> conversation, wsRef |-> wsRef,
     audioContextRef |-> audioContextRef, analyserRef |-> analyserRef,
     mediaStreamRef |-> mediaStreamRef, mediaRecorderRef |-> mediaRecorderRef,
     audioChunksRef |-> audioChunksRef, currentAudioRef |-> currentAudioRef,
     conversationIdRef |-> conversationIdRef, vadIntervalRef |-> vadIntervalRef,
     silenceStartRef |-> silenceStartRef, speechStartRef |-> speechStartRef,
     recordingStartTimeRef |-> recordingStartTimeRef,
     streamingStartedRef |-> streamingStartedRef,
     isStreamingModeRef |-> isStreamingModeRef,
     isAudioPlayingRef |-> isAudioPlayingRef,
     pendingListenRef |-> pendingListenRef, isListeningRef |-> isListeningRef,
     isRecordingRef |-> isRecordingRef,
     lastResponseTimeRef |-> lastResponseTimeRef,
     lastResponseTextRef |-> lastResponseTextRef,
     processingResponseRef |-> processingResponseRef,
     sendingAudioRef |-> sendingAudioRef,
     lastAudioSendTimeRef |-> lastAudioSendTimeRef,
     audioQueueRef |-> audioQueueRef, isPlayingQueueRef |-> isPlayingQueueRef,
     lastStrongSpeechRef |-> lastStrongSpeechRef, now |-> now,
     lastTickAt |-> lastTickAt,
     wsReady |-> wsReady, closeCapture |-> closeCapture, recState |-> recState,
     activeRecorders |-> activeRecorders, recCount |-> recCount,
     recStartedAt |-> recStartedAt, failsafeLog |-> failsafeLog, recEvents |-> recEvents, playback |-> playback, audioElements |-> audioElements, droppedAudio |-> droppedAudio, ignored |-> ignored, runner |-> runner,
     listenTimers |-> listenTimers, errorTimers |-> errorTimers,
     assessTimer |-> assessTimer, chunkReads |-> chunkReads,
     batchReads |-> batchReads, liveStreams |-> liveStreams, wire |-> <<>>,
     owed |-> owed, streams |-> streams, committed |-> committed, legacy |-> legacy, sessionNo |-> sessionNo, recNo |-> recNo, errNo |-> errNo]

\* The next state is the record s.
Becomes(s) ==
    /\ connected' = s.connected
    /\ isEndingInterview' = s.isEndingInterview
    /\ assessment' = s.assessment
    /\ wsRef' = s.wsRef
    /\ audioContextRef' = s.audioContextRef
    /\ analyserRef' = s.analyserRef
    /\ mediaStreamRef' = s.mediaStreamRef
    /\ mediaRecorderRef' = s.mediaRecorderRef
    /\ audioChunksRef' = s.audioChunksRef
    /\ currentAudioRef' = s.currentAudioRef
    /\ conversationIdRef' = s.conversationIdRef
    /\ vadIntervalRef' = s.vadIntervalRef
    /\ silenceStartRef' = s.silenceStartRef
    /\ speechStartRef' = s.speechStartRef
    /\ recordingStartTimeRef' = s.recordingStartTimeRef
    /\ streamingStartedRef' = s.streamingStartedRef
    /\ isStreamingModeRef' = s.isStreamingModeRef
    /\ isAudioPlayingRef' = s.isAudioPlayingRef
    /\ pendingListenRef' = s.pendingListenRef
    /\ isListeningRef' = s.isListeningRef
    /\ isRecordingRef' = s.isRecordingRef
    /\ lastResponseTimeRef' = s.lastResponseTimeRef
    /\ lastResponseTextRef' = s.lastResponseTextRef
    /\ processingResponseRef' = s.processingResponseRef
    /\ sendingAudioRef' = s.sendingAudioRef
    /\ lastAudioSendTimeRef' = s.lastAudioSendTimeRef
    /\ audioQueueRef' = s.audioQueueRef
    /\ isPlayingQueueRef' = s.isPlayingQueueRef
    /\ lastStrongSpeechRef' = s.lastStrongSpeechRef
    /\ now' = s.now
    /\ lastTickAt' = s.lastTickAt
    /\ wsReady' = s.wsReady
    /\ closeCapture' = s.closeCapture
    /\ recState' = s.recState
    /\ activeRecorders' = s.activeRecorders
    /\ recCount' = s.recCount
    /\ recStartedAt' = s.recStartedAt
    /\ failsafeLog' = s.failsafeLog
    /\ recEvents' = s.recEvents
    /\ playback' = s.playback
    /\ conversation' = s.conversation
    /\ audioElements' = s.audioElements
    /\ droppedAudio' = s.droppedAudio
    /\ ignored' = s.ignored
    /\ runner' = s.runner
    /\ listenTimers' = s.listenTimers
    /\ errorTimers' = s.errorTimers
    /\ assessTimer' = s.assessTimer
    /\ chunkReads' = s.chunkReads
    /\ batchReads' = s.batchReads
    /\ liveStreams' = s.liveStreams
    /\ wire' = s.wire
    /\ owed' = s.owed
    /\ streams' = s.streams
    /\ committed' = s.committed
    /\ legacy' = s.legacy
    /\ sessionNo' = s.sessionNo
    /\ recNo' = s.recNo
    /\ errNo' = s.errNo

\* ------------------------------------------------------------ the transport
\* WebSocket.send on the socket wsRef points to: the message goes out only on
\* an OPEN socket (a CLOSING or CLOSED socket discards it).
WsIsOpen(s) == s.wsRef /\ s.wsReady = "OPEN"

\* What the server owes after receiving message m: a stream_ready for an
\* audio_stream_start, a response for an utterance, the assessment for
\* end_interview, the greeting for start_interview.
OwedAfter(o, m) ==
    CASE m.type = "start_interview" -> [o EXCEPT !.greeting = TRUE]
      [] m.type = "audio_stream_start" -> [o EXCEPT !.ready = @ + 1]
      [] m.type \in {"audio", "audio_commit"} -> [o EXCEPT !.response = @ + 1]
      [] m.type = "end_interview" -> [o EXCEPT !.assessment = TRUE]
      [] OTHER -> o

NoneOwed == [greeting |-> FALSE, ready |-> 0, response |-> 0, assessment |-> FALSE]

WsSend(s, m) ==
    IF WsIsOpen(s)
    THEN [s EXCEPT !.wire = Append(@, m), !.owed = OwedAfter(@, m)]
    ELSE s

\* An outbound message: its type, its conversation_id, the session whose
\* socket carries it, the recorder it belongs to (0: none), and its payload
\* (the chunks of an audio blob, the one chunk of an audio_chunk).
Msg(s, type, rec, chunks) ==
    [type |-> type, cid |-> s.conversationIdRef, session |-> s.sessionNo,
     rec |-> rec, chunks |-> chunks]

\* --------------------------------------------------------------- listening
StopListening(s) ==
    [s EXCEPT !.isListeningRef = FALSE,
              !.pendingListenRef = FALSE,
              !.vadIntervalRef = FALSE]

StartListening(s) ==
    IF s.isAudioPlayingRef THEN [s EXCEPT !.pendingListenRef = TRUE]
    ELSE IF s.processingResponseRef THEN [s EXCEPT !.pendingListenRef = TRUE]
    ELSE IF s.isListeningRef \/ ~s.analyserRef THEN s
    ELSE [s EXCEPT !.isListeningRef = TRUE,
                   !.silenceStartRef = 0,
                   !.speechStartRef = 0,
                   !.vadIntervalRef = TRUE]

\* ----------------------------------------------------------------- playback
\* pause() and src = '' on the playing element: its promise stays unresolved
\* until the element reports the error of the emptied source, if it does.
StopCurrentAudio(s) ==
    IF s.currentAudioRef
    THEN [s EXCEPT !.currentAudioRef = FALSE,
                   !.isAudioPlayingRef = FALSE,
                   !.audioElements = IF s.playback = "playing" THEN @ - 1 ELSE @,
                   !.playback = IF @ = "playing" THEN "stalled" ELSE @]
    ELSE s

CleanupResources(s) ==
    LET a == IF s.wsRef
             THEN [s EXCEPT !.wsRef = FALSE,
                            !.wsReady = IF @ \in {"CONNECTING", "OPEN"}
                                        THEN "CLOSING" ELSE @]
             ELSE s
        b == IF a.mediaStreamRef
             THEN [a EXCEPT !.mediaStreamRef = FALSE, !.liveStreams = @ - 1]
             ELSE a
        c == [b EXCEPT !.audioContextRef = FALSE, !.vadIntervalRef = FALSE]
        d == StopCurrentAudio(c)
    IN  [d EXCEPT !.isAudioPlayingRef = FALSE, !.pendingListenRef = FALSE]

\* ---------------------------------------------------------------- recording
\* A captured chunk is <<recorder, number>>: the number-th chunk with
\* size > 0 that the recorder delivered.
ChunkRec(c) == c[1]

\* MediaRecorder.stop(): the recorder turns inactive at once and queues a
\* task that fires dataavailable with the data gathered since the last
\* timeslice, then stop.  Each queued event remembers the recorder it comes
\* from and the function that stopped it (by).
RecorderStop(s, by) ==
    IF s.recState # "inactive"
    THEN [s EXCEPT !.recState = "inactive",
                   !.activeRecorders = @ \ {s.mediaRecorderRef},
                   !.recStartedAt = 0,
                   !.recEvents = @ \o
                       << [rec |-> s.mediaRecorderRef, ev |-> "data",
                           k |-> s.recCount + 1, by |-> by],
                          [rec |-> s.mediaRecorderRef, ev |-> "stop",
                           k |-> 0, by |-> by] >>]
    ELSE s

SendAudioChunk(s, c) ==
    IF ~s.wsRef \/ s.wsReady # "OPEN" \/ ~s.streamingStartedRef
    THEN s
    ELSE [s EXCEPT !.chunkReads = Append(@, c)]

\* mediaRecorder.ondataavailable with event.data.size > 0
OnDataAvailable(s, c) ==
    LET a == [s EXCEPT !.audioChunksRef = Append(@, c)]
    IN  IF a.isStreamingModeRef /\ a.streamingStartedRef
        THEN SendAudioChunk(a, c)
        ELSE a

RECURSIVE SendChunks(_, _)
SendChunks(s, chunks) ==
    IF chunks = <<>> THEN s
    ELSE SendChunks(SendAudioChunk(s, Head(chunks)), Tail(chunks))

StartStreamingChunks(s) == SendChunks(s, s.audioChunksRef)

SendStreamCommit(s, rec) ==
    IF ~s.wsRef \/ s.wsReady # "OPEN"
    THEN s
    ELSE [WsSend(s, Msg(s, "audio_commit", rec, <<>>))
            EXCEPT !.committed = @ \cup {rec}]

\* sendAudio up to reader.readAsDataURL: the encoding completes in a later
\* callback.
SendAudio(s, blob, rec) ==
    IF ~s.wsRef \/ s.wsReady # "OPEN" THEN StartListening(s)
    ELSE IF s.sendingAudioRef THEN s
    ELSE IF s.now - s.lastAudioSendTimeRef < SEND_GUARD_MS THEN s
    ELSE [s EXCEPT !.sendingAudioRef = TRUE,
                   !.lastAudioSendTimeRef = s.now,
                   !.batchReads = Append(@, [rec |-> rec, chunks |-> blob,
                                             timer |-> TRUE])]

\* mediaRecorder.onstop of recorder rec
OnStop(s, rec) ==
    LET a == [s EXCEPT !.recordingStartTimeRef = 0]
    IN  IF a.isStreamingModeRef
        THEN LET b == IF a.streamingStartedRef THEN SendStreamCommit(a, rec) ELSE a
             IN  [b EXCEPT !.streamingStartedRef = FALSE]
        ELSE IF Len(a.audioChunksRef) > 0
             THEN SendAudio(a, a.audioChunksRef, rec)
             ELSE a

\* startRecording after its guard: a new MediaRecorder on the microphone
\* stream, a fresh buffer, start(100), and the request of a streaming
\* session.
NewRecorder(s) ==
    LET r == s.recNo + 1
        a == [s EXCEPT !.recNo = r,
                       !.mediaRecorderRef = r,
                       !.audioChunksRef = <<>>,
                       !.recordingStartTimeRef = s.now,
                       !.streamingStartedRef = FALSE,
                       !.recState = "recording",
                       !.activeRecorders = @ \cup {r},
                       !.recStartedAt = s.now,
                       !.recCount = 0,
                       !.isRecordingRef = TRUE]
    IN  IF a.isStreamingModeRef /\ a.wsRef /\ a.wsReady = "OPEN"
        THEN [WsSend(a, Msg(a, "audio_stream_start", r, <<>>))
                EXCEPT !.streams = Append(@, "sent")]
        ELSE [a EXCEPT !.streams = Append(@, "unsent")]

StartRecording(s) ==
    IF s.isRecordingRef \/ ~s.mediaStreamRef THEN s
    ELSE NewRecorder(s)

StopRecording(s) ==
    IF ~s.isRecordingRef \/ s.mediaRecorderRef = 0 THEN s
    ELSE [RecorderStop(StopListening(s), "stopRecording") EXCEPT !.isRecordingRef = FALSE]

CancelRecording(s) ==
    IF s.mediaRecorderRef = 0 THEN s
    ELSE [RecorderStop(s, "cancelRecording") EXCEPT !.audioChunksRef = <<>>,
                                 !.isRecordingRef = FALSE,
                                 !.recordingStartTimeRef = 0,
                                 !.streamingStartedRef = FALSE]

\* ---------------------------------------------------------------------- VAD
\* An analyser frame: the sum and the peak of the bins 2..127.  The average
\* of the code is sum / BAND_BINS; the comparisons are cross-multiplied.
Frames ==
    { [sum |-> 0, peak |-> 0],                      \* silence
      [sum |-> 10 * BAND_BINS, peak |-> 255],       \* a click
      [sum |-> 40 * BAND_BINS, peak |-> 90],        \* speech
      [sum |-> 60 * BAND_BINS, peak |-> 120] }      \* strong speech

\* Frames at the edges of the classification: the mean at MIN_SPEECH_VOLUME
\* and just above it, a peak above CLICK_PEAK with the mean just below and at
\* CLICK_AVERAGE, a peak at CLICK_PEAK, a loud peak with a mean above
\* MIN_SPEECH_VOLUME, the quietest and the loudest frame.
EdgeFrames ==
    { [sum |-> 0, peak |-> 0],
      [sum |-> MIN_SPEECH_VOLUME * BAND_BINS, peak |-> MIN_SPEECH_VOLUME],
      [sum |-> MIN_SPEECH_VOLUME * BAND_BINS + 1, peak |-> MIN_SPEECH_VOLUME + 1],
      [sum |-> CLICK_AVERAGE * BAND_BINS - 1, peak |-> CLICK_PEAK + 1],
      [sum |-> CLICK_AVERAGE * BAND_BINS, peak |-> CLICK_PEAK + 1],
      [sum |-> CLICK_AVERAGE * BAND_BINS - 1, peak |-> CLICK_PEAK],
      [sum |-> MIN_SPEECH_VOLUME * BAND_BINS + 1, peak |-> 255],
      [sum |-> 255 * BAND_BINS, peak |-> 255] }

\* A classification that takes a mean at the threshold for speech.
IsLikelySpeechAtThreshold(f) == f.sum >= MIN_SPEECH_VOLUME * BAND_BINS

IsLikelyClick(f) == f.peak > CLICK_PEAK /\ f.sum < CLICK_AVERAGE * BAND_BINS
IsLikelySpeech(f) == f.sum > MIN_SPEECH_VOLUME * BAND_BINS /\ ~IsLikelyClick(f)
\* average > MIN_SPEECH_VOLUME * 1.5
IsStrongSpeech(f) == 2 * f.sum > 3 * MIN_SPEECH_VOLUME * BAND_BINS

\* A classification that creates a recorder at every speech tick, recording
\* or not.
ClassifyStartsAnew(s, f) ==
    IF IsLikelySpeech(f) /\ s.mediaStreamRef
    THEN NewRecorder([s EXCEPT !.silenceStartRef = 0, !.speechStartRef = s.now])
    ELSE s

\* A classification that measures the speech of a recording from its onset
\* to the beginning of the silence, and not to the present tick.
ClassifyBySpeechSpan(s, f) ==
    LET a == IF IsStrongSpeech(f) THEN [s EXCEPT !.lastStrongSpeechRef = s.now] ELSE s
    IN  IF IsLikelySpeech(f)
        THEN LET b == [a EXCEPT !.silenceStartRef = 0]
             IN  IF ~b.isRecordingRef
                 THEN StartRecording([b EXCEPT !.speechStartRef = s.now,
                                               !.lastStrongSpeechRef = s.now])
                 ELSE b
        ELSE IF a.isRecordingRef
             THEN IF a.silenceStartRef = 0
                  THEN [a EXCEPT !.silenceStartRef = s.now]
                  ELSE IF s.now - a.silenceStartRef > SILENCE_DURATION
                       THEN IF a.silenceStartRef - a.speechStartRef > SPEECH_MIN_DURATION
                            THEN StopRecording(a)
                            ELSE [CancelRecording(a) EXCEPT !.silenceStartRef = 0,
                                                            !.speechStartRef = 0]
                       ELSE a
             ELSE a

\* checkVoiceActivity from the classification on (lines 710-754)
Classify(s, f) ==
    LET a == IF IsStrongSpeech(f) THEN [s EXCEPT !.lastStrongSpeechRef = s.now] ELSE s
    IN  IF IsLikelySpeech(f)
        THEN LET b == [a EXCEPT !.silenceStartRef = 0]
             IN  IF ~b.isRecordingRef
                 THEN StartRecording([b EXCEPT !.speechStartRef = s.now,
                                               !.lastStrongSpeechRef = s.now])
                 ELSE b
        ELSE IF a.isRecordingRef
             THEN IF a.silenceStartRef = 0
                  THEN [a EXCEPT !.silenceStartRef = s.now]
                  ELSE IF s.now - a.silenceStartRef > SILENCE_DURATION
                       THEN IF s.now - a.speechStartRef > SPEECH_MIN_DURATION
                            THEN StopRecording(a)
                            ELSE [CancelRecording(a) EXCEPT !.silenceStartRef = 0,
                                                            !.speechStartRef = 0]
                       ELSE a
             ELSE a

\* The tick gets past the two early returns of checkVoiceActivity.
TickEvaluates(s) ==
    /\ s.analyserRef /\ s.isListeningRef
    /\ ~s.isAudioPlayingRef /\ ~s.processingResponseRef

\* The three failsafes that precede the classification (lines 685-708); the
\* code tests isRecordingRef and recordingStartTimeRef before each.
Timed(s) == s.isRecordingRef /\ s.recordingStartTimeRef # 0
MaxDurationReached(s) ==
    Timed(s) /\ s.now - s.recordingStartTimeRef > MAX_RECORDING_DURATION
ForceStopReached(s) ==
    Timed(s) /\ s.now - s.recordingStartTimeRef > FORCE_STOP_AFTER_MS
LowActivityReached(s) ==
    /\ Timed(s)
    /\ s.lastStrongSpeechRef # 0
    /\ s.now - s.lastStrongSpeechRef > LOW_ACTIVITY_TIMEOUT_MS

\* A failsafe logs its message and stops the recording.
Failsafe(s, which) == StopRecording([s EXCEPT !.failsafeLog = which])

CheckVoiceActivity(s, f) ==
    LET a == [s EXCEPT !.failsafeLog = "none"]
    IN  IF ~TickEvaluates(s) THEN s
        ELSE IF MaxDurationReached(s) THEN Failsafe(s, "max")
        ELSE IF ForceStopReached(s) THEN Failsafe(s, "force")
        ELSE IF LowActivityReached(s) THEN Failsafe(s, "low")
        ELSE Classify(a, f)

\* ----------------------------------------------------------- playback queue
\* playAudioInternal up to audio.play(): an item whose audio cannot be
\* decoded (atob throws) resolves at once in the catch.
PlayAudioInternal(s, item) ==
    LET a == [StopCurrentAudio(s) EXCEPT !.isAudioPlayingRef = TRUE]
    IN  IF item.ok
        THEN [a EXCEPT !.currentAudioRef = TRUE, !.playback = "playing",
                       !.audioElements = @ + 1]
        ELSE [a EXCEPT !.isAudioPlayingRef = FALSE, !.playback = "idle"]

\* processAudioQueue after its loop, and then the rest of the message handler
\* that awaited playAudio: the response handler clears its processing flag.
QueueDrained(s) ==
    LET a == [s EXCEPT !.isPlayingQueueRef = FALSE]
        b == IF a.pendingListenRef
             THEN [a EXCEPT !.pendingListenRef = FALSE, !.listenTimers = @ + 1]
             ELSE a
        c == IF b.runner = "response"
             THEN [b EXCEPT !.processingResponseRef = FALSE]
             ELSE b
    IN  [c EXCEPT !.runner = "none"]

\* The while loop of processAudioQueue, from its test to the next await that
\* suspends it.
RECURSIVE RunQueue(_)
RunQueue(s) ==
    IF Len(s.audioQueueRef) > 0
    THEN LET item == Head(s.audioQueueRef)
             a == [s EXCEPT !.audioQueueRef = Tail(@)]
             b == IF a.isListeningRef THEN StopListening(a) ELSE a
             c == PlayAudioInternal(b, item)
         IN  IF c.playback = "playing" THEN c ELSE RunQueue(c)
    ELSE QueueDrained(s)

\* A queue that starts its loop whether or not one is already running.
ProcessAudioQueueAgain(s, kind) ==
    RunQueue([s EXCEPT !.isPlayingQueueRef = TRUE, !.runner = kind])

\* processAudioQueue called by the handler of a kind message
ProcessAudioQueue(s, kind) ==
    IF s.isPlayingQueueRef THEN s
    ELSE RunQueue([s EXCEPT !.isPlayingQueueRef = TRUE, !.runner = kind])

\* A playAudio that appends to the queue without clearing it.
PlayAudioStacking(s, item, kind) ==
    ProcessAudioQueue([s EXCEPT !.audioQueueRef = Append(@, item)], kind)

PlayAudio(s, item, kind) ==
    LET a == IF Len(s.audioQueueRef) > 0
             THEN [s EXCEPT !.droppedAudio = @ + Len(s.audioQueueRef),
                            !.audioQueueRef = <<>>]
             ELSE s
        b == [a EXCEPT !.audioQueueRef = Append(@, item)]
    IN  ProcessAudioQueue(b, kind)

\* resolve() of the promise the queue loop awaits
PlaybackResolved(s) == RunQueue([s EXCEPT !.playback = "idle"])

\* ------------------------------------------- the VAD of frontend/app.js
\* The globals of app.js that its voice activity detection reads and writes;
\* null is 0.  stops counts the stop events of recorders still to be
\* handled, recorders the recorders created, and branch is the branch the
\* last tick took at sustained silence or at the failsafe.
AppInit ==
    [mediaStream |-> FALSE, analyser |-> FALSE, mediaRecorder |-> FALSE,
     isListening |-> FALSE, vadInterval |-> FALSE, isRecording |-> FALSE,
     silenceStart |-> 0, speechStart |-> 0, recordingStartTime |-> 0,
     stops |-> 0, recorders |-> 0, isEndingInterview |-> FALSE,
     branch |-> "none"]

AppStartListening(a) ==
    IF a.isListening THEN a
    ELSE [a EXCEPT !.isListening = TRUE, !.silenceStart = 0, !.speechStart = 0,
                   !.vadInterval = TRUE]

AppStopListening(a) == [a EXCEPT !.isListening = FALSE, !.vadInterval = FALSE]

AppResetUI(a) == [a EXCEPT !.isRecording = FALSE, !.isListening = FALSE]

AppCleanupResources(a) == AppResetUI([a EXCEPT !.mediaStream = FALSE])

\* mediaRecorder.stop() on a recorder that is not inactive queues its stop
\* event.
AppRecorderStop(a) ==
    IF a.isRecording THEN [a EXCEPT !.stops = @ + 1] ELSE a

AppStartRecording(a, t) ==
    IF a.isRecording \/ ~a.mediaStream THEN a
    ELSE [a EXCEPT !.mediaRecorder = TRUE, !.recordingStartTime = t,
                   !.isRecording = TRUE, !.recorders = @ + 1]

AppStopRecording(a) ==
    IF ~a.isRecording \/ ~a.mediaRecorder THEN a
    ELSE [AppRecorderStop(AppStopListening(a)) EXCEPT !.isRecording = FALSE]

AppCancelRecording(a) ==
    IF ~a.mediaRecorder THEN a
    ELSE [AppRecorderStop(a) EXCEPT !.isRecording = FALSE,
                                    !.recordingStartTime = 0]

\* checkVoiceActivity of app.js at Date.now() = t with analyser frame f
AppCheckVoiceActivity(a, t, f) ==
    LET b == [a EXCEPT !.branch = "none"]
    IN  IF ~a.analyser \/ ~a.isListening THEN a
        ELSE IF /\ a.isRecording /\ a.recordingStartTime # 0
                /\ t - a.recordingStartTime > APP_MAX_RECORDING_DURATION
        THEN AppStopRecording([a EXCEPT !.branch = "max"])
        ELSE IF f.sum > APP_SILENCE_THRESHOLD * BAND_BINS
        THEN LET c == [b EXCEPT !.silenceStart = 0]
             IN  IF ~c.isRecording
                 THEN AppStartRecording([c EXCEPT !.speechStart = t], t)
                 ELSE c
        ELSE IF b.isRecording
             THEN IF b.silenceStart = 0
                  THEN [b EXCEPT !.silenceStart = t]
                  ELSE IF t - b.silenceStart > APP_SILENCE_DURATION
                       THEN IF t - b.speechStart > APP_SPEECH_MIN_DURATION
                            THEN AppStopRecording([b EXCEPT !.branch = "stop"])
                            ELSE [AppCancelRecording(b)
                                    EXCEPT !.branch = "cancel",
                                           !.silenceStart = 0,
                                           !.speechStart = 0]
                       ELSE b
             ELSE b

\* stopInterview, with the socket open and the greeting received or not
AppStopInterview(a, open) ==
    LET b == AppStopListening(a)
        c == IF b.isRecording THEN AppCancelRecording(b) ELSE b
    IN  IF open THEN [c EXCEPT !.isEndingInterview = TRUE]
        ELSE AppCleanupResources(c)

\* displayAssessment
AppDisplayAssessment(a) ==
    [a EXCEPT !.isEndingInterview = FALSE, !.mediaStream = FALSE]

\* --------------------------------------------------------- message handlers
Texts == { <<1>>, <<2>> }

Min(a, b) == IF a < b THEN a ELSE b
Prefix(t) == SubSeq(t, 1, Min(PREFIX_LEN, Len(t)))

\* A filter without the prefix clause.
IsDuplicateExactText(s, responseText) ==
    \/ s.processingResponseRef
    \/ /\ s.now - s.lastResponseTimeRef < RESPONSE_DEBOUNCE_MS
       /\ responseText = s.lastResponseTextRef

\* A filter that only drops a response while another is being processed.
IsDuplicateWhileBusy(s, responseText) == s.processingResponseRef

IsDuplicate(s, responseText) ==
    LET textPrefix == Prefix(responseText)
        lastTextPrefix == Prefix(s.lastResponseTextRef)
        inWindow == s.now - s.lastResponseTimeRef < RESPONSE_DEBOUNCE_MS
    IN  \/ s.processingResponseRef
        \/ inWindow /\ responseText = s.lastResponseTextRef
        \/ inWindow /\ textPrefix = lastTextPrefix /\ Len(textPrefix) > PREFIX_MIN

HandleGreeting(s, ok) ==
    LET a == [s EXCEPT !.conversationIdRef = s.sessionNo, !.conversation = @ + 1,
                       !.pendingListenRef = TRUE]
    IN  PlayAudio(a, [kind |-> "greeting", ok |-> ok], "greeting")

HandleResponse(s, text, ok) ==
    IF IsDuplicate(s, text) THEN [s EXCEPT !.ignored = [text |-> text, at |-> s.now]]
    ELSE LET a == [s EXCEPT !.processingResponseRef = TRUE,
                            !.lastResponseTimeRef = s.now,
                            !.lastResponseTextRef = text]
             b == IF a.isListeningRef THEN StopListening(a) ELSE a
             c == IF b.isRecordingRef THEN CancelRecording(b) ELSE b
             d == [c EXCEPT !.conversation = @ + 1, !.pendingListenRef = TRUE]
             e == PlayAudio(d, [kind |-> "response", ok |-> ok], "response")
         IN  \* when the queue is already being processed, playAudio returns
             \* at once and the handler clears its flag in the same task
             IF d.isPlayingQueueRef
             THEN [e EXCEPT !.processingResponseRef = FALSE]
             ELSE e

HandleAssessment(s) ==
    CleanupResources([s EXCEPT !.assessment = TRUE, !.isEndingInterview = FALSE])

HandleStreamReady(s) ==
    LET seen == [r \in 1..Len(s.streams) |->
                    IF s.streams[r] = "unsent" THEN "unsent" ELSE "ready"]
    IN  StartStreamingChunks([s EXCEPT !.streamingStartedRef = TRUE,
                                       !.streams = seen])

HandleError(s) ==
    [s EXCEPT !.streamingStartedRef = FALSE, !.errorTimers = @ + 1]

\* endInterview; the callback of its timer reads isEndingInterview of the
\* render that created it, which is the value at the call.
EndInterviewFn(s) ==
    LET a == StopCurrentAudio(StopListening(s))
        b == IF a.isRecordingRef THEN CancelRecording(a) ELSE a
    IN  IF b.wsRef /\ b.wsReady = "OPEN" /\ b.conversationIdRef # 0
        THEN [WsSend(b, Msg(b, "end_interview", 0, <<>>))
                EXCEPT !.isEndingInterview = TRUE,
                       !.assessTimer = [pending |-> TRUE,
                                        captured |-> s.isEndingInterview]]
        ELSE [CleanupResources(b) EXCEPT !.conversation = 0]

AssessTimeoutFn(s) ==
    LET a == [s EXCEPT !.assessTimer.pending = FALSE]
    IN  IF s.assessTimer.captured
        THEN CleanupResources([a EXCEPT !.isEndingInterview = FALSE])
        ELSE a

\* ws.onclose with the close code: 1000 or another
OnClose(s, normal) ==
    LET a == [s EXCEPT !.connected = FALSE, !.wsReady = "CLOSED", !.owed = NoneOwed]
    IN  IF normal THEN a
        ELSE IF ~s.closeCapture.ending /\ ~s.closeCapture.assessment
        THEN StopListening(a)
        ELSE a

\* ------------------------------------------------------------ initial state
Init ==
    /\ connected = FALSE /\ isEndingInterview = FALSE /\ assessment = FALSE
    /\ wsRef = FALSE /\ audioContextRef = FALSE /\ analyserRef = FALSE
    /\ mediaStreamRef = FALSE /\ mediaRecorderRef = 0
    /\ audioChunksRef = <<>> /\ currentAudioRef = FALSE
    /\ conversationIdRef = 0 /\ vadIntervalRef = FALSE
    /\ silenceStartRef = 0 /\ speechStartRef = 0 /\ recordingStartTimeRef = 0
    /\ streamingStartedRef = FALSE
    /\ isStreamingModeRef \in BOOLEAN
    /\ isAudioPlayingRef = FALSE /\ pendingListenRef = FALSE
    /\ isListeningRef = FALSE /\ isRecordingRef = FALSE
    /\ lastResponseTimeRef = 0 /\ lastResponseTextRef = <<>>
    /\ processingResponseRef = FALSE /\ sendingAudioRef = FALSE
    /\ lastAudioSendTimeRef = 0 /\ audioQueueRef = <<>>
    /\ isPlayingQueueRef = FALSE /\ lastStrongSpeechRef = 0
    /\ now = Epoch
    /\ lastTickAt = 0
    /\ wsReady = "NONE"
    /\ closeCapture = [ending |-> FALSE, assessment |-> FALSE]
    /\ recState = "inactive" /\ activeRecorders = {}
    /\ recCount = 0 /\ recEvents = <<>>
    /\ recStartedAt = 0 /\ failsafeLog = "none"
    /\ playback = "idle" /\ runner = "none" /\ audioElements = 0 /\ droppedAudio = 0
    /\ conversation = 0
    /\ ignored = [text |-> <<>>, at |-> 0]
    /\ listenTimers = 0 /\ errorTimers = 0 /\ assessTimer = [pending |-> FALSE, captured |-> FALSE]
    /\ chunkReads = <<>> /\ batchReads = <<>>
    /\ liveStreams = 0
    /\ wire = <<>> /\ owed = NoneOwed /\ streams = <<>> /\ committed = {}
    /\ legacy = AppInit
    /\ sessionNo = 0 /\ recNo = 0 /\ errNo = 0

\* Response texts around the lengths the duplicate filter distinguishes: the
\* empty text of a response without interviewer_text, texts of PREFIX_MIN
\* characters and one more, of PREFIX_LEN characters and one more, each with
\* two different last characters.
TextOf(n, c) == [i \in 1..n |-> IF i = n THEN c ELSE 1]
TextLengths == { 0, 1, PREFIX_MIN, PREFIX_MIN + 1, PREFIX_LEN, PREFIX_LEN + 1 }
ResponseTexts == { TextOf(n, c) : n \in TextLengths, c \in {1, 2} }

\* The moments of the previously accepted response, seen from Date.now() =
\* Epoch: none yet, RESPONSE_DEBOUNCE_MS ago, one millisecond less, just now.
AcceptTimes == { 0, Epoch - RESPONSE_DEBOUNCE_MS, Epoch - RESPONSE_DEBOUNCE_MS + 1, Epoch }

\* A running session in batch mode whose greeting was played, in which two
\* utterances were sent and their responses are owed, with the tracking
\* state of the duplicate filter left by the last accepted response: its
\* text, its time, and whether its audio is still playing (busy).
InitResponses ==
    \E last \in ResponseTexts, at \in AcceptTimes, busy \in BOOLEAN :
        /\ at = 0 => last = <<>> /\ ~busy
        /\ connected = TRUE /\ isEndingInterview = FALSE /\ assessment = FALSE
        /\ wsRef = TRUE /\ audioContextRef = TRUE /\ analyserRef = TRUE
        /\ mediaStreamRef = TRUE /\ mediaRecorderRef = MaxRecordings
        /\ audioChunksRef = <<>> /\ currentAudioRef = busy
        /\ conversationIdRef = 1 /\ vadIntervalRef = FALSE
        /\ silenceStartRef = 0 /\ speechStartRef = 0 /\ recordingStartTimeRef = 0
        /\ streamingStartedRef = FALSE
        /\ isStreamingModeRef = FALSE
        /\ isAudioPlayingRef = busy /\ pendingListenRef = busy
        /\ isListeningRef = FALSE /\ isRecordingRef = FALSE
        /\ lastResponseTimeRef = at /\ lastResponseTextRef = last
        /\ processingResponseRef = busy /\ sendingAudioRef = FALSE
        /\ lastAudioSendTimeRef = 0 /\ audioQueueRef = <<>>
        /\ isPlayingQueueRef = busy /\ lastStrongSpeechRef = 0
        /\ now = Epoch
        /\ lastTickAt = 0
        /\ wsReady = "OPEN"
        /\ closeCapture = [ending |-> FALSE, assessment |-> FALSE]
        /\ recState = "inactive" /\ activeRecorders = {}
        /\ recCount = 0 /\ recEvents = <<>>
        /\ recStartedAt = 0 /\ failsafeLog = "none"
        /\ playback = (IF busy THEN "playing" ELSE "idle")
        /\ runner = (IF busy THEN "response" ELSE "none")
        /\ audioElements = (IF busy THEN 1 ELSE 0) /\ droppedAudio = 0
        /\ conversation = (IF at = 0 THEN 1 ELSE 2)
        /\ ignored = [text |-> <<>>, at |-> 0]
        /\ listenTimers = 0 /\ errorTimers = 0
        /\ assessTimer = [pending |-> FALSE, captured |-> FALSE]
        /\ chunkReads = <<>> /\ batchReads = <<>>
        /\ liveStreams = 1
        /\ wire = <<>> /\ owed = [NoneOwed EXCEPT !.response = 2]
        /\ streams = [r \in 1..MaxRecordings |-> "unsent"] /\ committed = {}
        /\ legacy = AppInit
        /\ sessionNo = 1 /\ recNo = MaxRecordings /\ errNo = 0

\* ------------------------------------------------------------------ actions
\* Date.now() advances between two callbacks, to the reading t.
ClockReadings == { Epoch, Epoch + ShortStep, Epoch + ShortStep + LongStep }

Advance(t) ==
    /\ t > now
    /\ Becomes([State EXCEPT !.now = t])

\* A reading more than SILENCE_DURATION after the last of ClockReadings: a run
\* that reaches it has room for speech of SPEECH_MIN_DURATION and more before
\* a silence of SILENCE_DURATION and more.
LateReading == Epoch + ShortStep + 2 * LongStep
LateClock == Advance(LateReading)

\* Readings around the caps of the failsafes, for a recording started at
\* Epoch: just past LOW_ACTIVITY_TIMEOUT_MS, on either side of
\* FORCE_STOP_AFTER_MS, and just past MAX_RECORDING_DURATION.
CapReadings ==
    { Epoch + LOW_ACTIVITY_TIMEOUT_MS + 1,
      Epoch + FORCE_STOP_AFTER_MS - 1,
      Epoch + FORCE_STOP_AFTER_MS + 1,
      Epoch + MAX_RECORDING_DURATION + 1 }
CapClock == \E t \in CapReadings : Advance(t)

\* The user clicks Start Interview: initAudioContext succeeds and the socket
\* is created.  The button is shown while connected is false; the model lets
\* the user click it only when no socket of the component is still alive.
ConnectWebSocket ==
    /\ ~connected
    /\ wsReady \in {"NONE", "CLOSED"}
    /\ sessionNo < MaxSessions
    /\ Becomes([State EXCEPT !.mediaStreamRef = TRUE,
                             !.liveStreams = @ + 1,
                             !.audioContextRef = TRUE,
                             !.analyserRef = TRUE,
                             !.wsRef = TRUE,
                             !.wsReady = "CONNECTING",
                             !.closeCapture = [ending |-> isEndingInterview,
                                               assessment |-> assessment],
                             !.sessionNo = @ + 1])

\* ws.onopen
WsOpen ==
    /\ wsReady = "CONNECTING"
    /\ LET m == [type |-> "start_interview", cid |-> 0, session |-> sessionNo,
                 rec |-> 0, chunks |-> <<>>]
       IN  Becomes([State EXCEPT !.wsReady = "OPEN",
                                 !.connected = TRUE,
                                 !.wire = Append(@, m),
                                 !.owed = OwedAfter(NoneOwed, m)])

\* The socket closes: the server or the network ends it, or the close that
\* cleanupResources asked for completes.
WsClose(normal) ==
    /\ wsReady \in {"CONNECTING", "OPEN", "CLOSING"}
    /\ Becomes(OnClose(State, normal))

RecvGreeting(ok) ==
    /\ wsReady = "OPEN" /\ owed.greeting
    /\ Becomes(HandleGreeting([State EXCEPT !.owed.greeting = FALSE], ok))

RecvResponse(text, ok) ==
    /\ wsReady = "OPEN" /\ owed.response > 0
    /\ Becomes(HandleResponse([State EXCEPT !.owed.response = @ - 1], text, ok))

RecvAssessment ==
    /\ wsReady = "OPEN" /\ owed.assessment
    /\ Becomes(HandleAssessment([State EXCEPT !.owed.assessment = FALSE]))

RecvStreamReady ==
    /\ wsReady = "OPEN" /\ owed.ready > 0
    /\ Becomes(HandleStreamReady([State EXCEPT !.owed.ready = @ - 1]))

\* An error message: the server's answer to an utterance or to a stream
\* start (answers), or an error of its own.
RecvError(answers) ==
    /\ wsReady = "OPEN" /\ errNo < MaxErrors
    /\ \/ answers = "none"
       \/ answers = "response" /\ owed.response > 0
       \/ answers = "ready" /\ owed.ready > 0
    /\ LET o == CASE answers = "response" -> [owed EXCEPT !.response = @ - 1]
                  [] answers = "ready" -> [owed EXCEPT !.ready = @ - 1]
                  [] OTHER -> owed
       IN  Becomes(HandleError([State EXCEPT !.owed = o, !.errNo = @ + 1]))

\* audio.onended
AudioEnded ==
    /\ playback = "playing"
    /\ Becomes([State EXCEPT !.currentAudioRef = FALSE,
                             !.isAudioPlayingRef = FALSE,
                             !.playback = "settle"])

\* the 300 ms timer of audio.onended
SettleTimeout ==
    /\ playback = "settle"
    /\ Becomes(PlaybackResolved([State EXCEPT !.audioElements = @ - 1]))

\* audio.onerror, of a playing element or of one stopCurrentAudio emptied
AudioError ==
    /\ playback \in {"playing", "stalled"}
    /\ Becomes(PlaybackResolved(
           [State EXCEPT !.currentAudioRef = FALSE,
                         !.isAudioPlayingRef = FALSE,
                         !.audioElements = IF playback = "playing" THEN @ - 1 ELSE @]))

\* audio.play() rejects
AudioPlayRejected ==
    /\ playback = "playing"
    /\ Becomes(PlaybackResolved([State EXCEPT !.isAudioPlayingRef = FALSE,
                                              !.audioElements = @ - 1]))

ListenTimerFires ==
    /\ listenTimers > 0
    /\ Becomes(StartListening([State EXCEPT !.listenTimers = @ - 1]))

ErrorTimerFires ==
    /\ errorTimers > 0
    /\ Becomes(StartListening([State EXCEPT !.errorTimers = @ - 1]))

\* One tick of the VAD interval with analyser frame f.
VadTick(f) ==
    /\ vadIntervalRef
    /\ recNo < MaxRecordings \/ isRecordingRef
    /\ Becomes([CheckVoiceActivity(State, f) EXCEPT !.lastTickAt = now])

\* dataavailable of the running recorder at a timeslice, with size > 0
RecorderData ==
    /\ recState = "recording"
    /\ recCount < MaxChunks
    /\ Becomes(OnDataAvailable([State EXCEPT !.recCount = @ + 1],
                               <<mediaRecorderRef, recCount + 1>>))

\* The dataavailable that stop() queued, with (full) or without data.
RecorderFinalData(full) ==
    /\ recEvents # <<>>
    /\ Head(recEvents).ev = "data"
    /\ full => Head(recEvents).k <= MaxChunks
    /\ LET e == Head(recEvents)
           a == [State EXCEPT !.recEvents = Tail(@)]
       IN  Becomes(IF full THEN OnDataAvailable(a, <<e.rec, e.k>>) ELSE a)

RecorderStopped ==
    /\ recEvents # <<>>
    /\ Head(recEvents).ev = "stop"
    /\ Becomes(OnStop([State EXCEPT !.recEvents = Tail(@)], Head(recEvents).rec))

RemoveAt(q, i) == SubSeq(q, 1, i - 1) \o SubSeq(q, i + 1, Len(q))

\* reader.onloadend of sendAudioChunk: the i-th pending encoding completes
ChunkEncoded(i) ==
    /\ i \in 1..Len(chunkReads)
    /\ LET c == chunkReads[i]
           a == [State EXCEPT !.chunkReads = RemoveAt(@, i)]
       IN  Becomes(WsSend(a, Msg(a, "audio_chunk", ChunkRec(c), <<c>>)))

\* reader.onloadend (ok), onerror or onabort of sendAudio
BatchEncoded(i, ok) ==
    /\ i \in 1..Len(batchReads)
    /\ LET r == batchReads[i]
           a == [State EXCEPT !.batchReads = RemoveAt(@, i),
                              !.sendingAudioRef = FALSE]
       IN  Becomes(IF ok THEN WsSend(a, Msg(a, "audio", r.rec, r.chunks)) ELSE a)

\* the 10 s safety timer of sendAudio, not yet cleared
SendAudioTimeout(i) ==
    /\ i \in 1..Len(batchReads)
    /\ batchReads[i].timer
    /\ Becomes([State EXCEPT !.batchReads[i].timer = FALSE,
                             !.sendingAudioRef = FALSE])

\* The user clicks End Interview (rendered while there is no assessment,
\* enabled while connected and not ending).
EndInterview ==
    /\ connected /\ ~isEndingInterview /\ ~assessment
    /\ Becomes(EndInterviewFn(State))

AssessTimeout ==
    /\ assessTimer.pending
    /\ Becomes(AssessTimeoutFn(State))

\* A callback of the VAD interval that runs at a later clock reading than the
\* callback before it: the interval fires every 150 ms.
SpacedTick(f) ==
    /\ now > lastTickAt
    /\ VadTick(f)

\* The callbacks of app.js that its voice activity detection takes part in.
AppRuns(a) == Becomes([State EXCEPT !.legacy = a])

\* startInterview: initAudioContext succeeds
AppStartInterview ==
    /\ ~legacy.analyser
    /\ AppRuns([legacy EXCEPT !.mediaStream = TRUE, !.analyser = TRUE])

\* startListening() called by the greeting or response handler after the
\* playback, by the timer of the error handler, or by sendAudio
AppListenCall ==
    /\ legacy.analyser
    /\ AppRuns(AppStartListening(legacy))

\* One tick of the interval of app.js, every 100 ms, with analyser frame f.
AppTick(f) ==
    /\ legacy.vadInterval
    /\ now > lastTickAt
    /\ legacy.recorders < MaxRecordings \/ legacy.isRecording
    /\ Becomes([State EXCEPT !.legacy = AppCheckVoiceActivity(@, now, f),
                             !.lastTickAt = now])

\* mediaRecorder.onstop of app.js
AppRecorderStopped ==
    /\ legacy.stops > 0
    /\ AppRuns([legacy EXCEPT !.stops = @ - 1, !.recordingStartTime = 0])

\* ws.onclose of app.js while the interview is not ending
AppClose ==
    /\ legacy.analyser /\ ~legacy.isEndingInterview
    /\ AppRuns(AppResetUI(AppStopListening(legacy)))

AppStop(open) ==
    /\ legacy.analyser /\ ~legacy.isEndingInterview
    /\ AppRuns(AppStopInterview(legacy, open))

AppAssessment ==
    /\ legacy.isEndingInterview
    /\ AppRuns(AppDisplayAssessment(legacy))

\* ------------------------------------------------------- next-state groups
\* Time passes between two callbacks.
Clock == \E t \in ClockReadings : Advance(t)

\* The callbacks of a turn other than the ticks of the VAD interval.
Calls ==
    \/ WsOpen
    \/ RecvGreeting(TRUE)
    \/ \E text \in Texts : RecvResponse(text, TRUE)
    \/ RecvStreamReady
    \/ AudioEnded
    \/ SettleTimeout
    \/ ListenTimerFires
    \/ \E full \in BOOLEAN : RecorderFinalData(full)
    \/ RecorderStopped
    \/ \E i \in 1..Len(chunkReads) : ChunkEncoded(i)
    \/ \E i \in 1..Len(batchReads), ok \in BOOLEAN : BatchEncoded(i, ok)

\* The ticks of the VAD interval, each at a later clock reading than the
\* one before.
SpacedTicks == \E f \in Frames : SpacedTick(f)

\* The callbacks of app.js.
AppCalls ==
    \/ AppListenCall
    \/ \E f \in Frames : AppTick(f)
    \/ AppRecorderStopped
    \/ AppClose
    \/ \E open \in BOOLEAN : AppStop(open)
    \/ AppAssessment
\* The interview as it runs when nothing fails: the clock, the connection,
\* the greeting and the responses with playable audio, the VAD, the recorder
\* and the encodings.
Turns ==
    \/ Clock
    \/ sessionNo = 0 /\ ConnectWebSocket
    \/ Calls
    \/ \E f \in Frames : VadTick(f)

\* The turns, and the chunks a recorder delivers at its timeslices.
Dialogue ==
    \/ Turns
    \/ RecorderData

\* Error messages of the server and the re-arm timers they schedule.
ServerErrors ==
    \/ \E answers \in {"none", "response", "ready"} : RecvError(answers)
    \/ ErrorTimerFires

\* The end of the interview: the user's click, the assessment, the fallback
\* timer.
Ending ==
    \/ EndInterview
    \/ RecvAssessment
    \/ AssessTimeout

\* The socket closes.
Closing == \E normal \in BOOLEAN : WsClose(normal)

\* The user starts the interview again after the socket has closed.
Restart == sessionNo > 0 /\ ConnectWebSocket

\* Audio that cannot be decoded or played, and the safety timer of sendAudio.
MediaFaults ==
    \/ RecvGreeting(FALSE)
    \/ \E text \in Texts : RecvResponse(text, FALSE)
    \/ AudioError
    \/ AudioPlayRejected
    \/ \E i \in 1..Len(batchReads) : SendAudioTimeout(i)

NextDialogue == Dialogue
NextErrors == Dialogue \/ ServerErrors
NextEnding == Dialogue \/ Ending \/ Closing
NextRestart == Dialogue \/ Closing \/ Restart
\* The arrival of a response with any of the texts, playable or not.
ResponseArrives ==
    \E text \in ResponseTexts, ok \in BOOLEAN : RecvResponse(text, ok)

NextResponses == ResponseArrives
\* A tick with a frame at an edge of the classification.
EdgeTick == \E f \in EdgeFrames : VadTick(f)

NextVad == Dialogue \/ EdgeTick
NextSilence == Dialogue \/ LateClock
NextPlayback == Turns \/ ServerErrors \/ MediaFaults
NextWatchdog == Dialogue \/ CapClock
\* A page runs one of the two front ends, the component or app.js, with
\* the ticks of its interval at distinct clock readings.
NextBranches ==
    \/ Clock
    \/ LateClock
    \/ sessionNo = 0 /\ legacy = AppInit /\ ConnectWebSocket
    \/ Calls
    \/ SpacedTicks
    \/ ServerErrors
    \/ sessionNo = 0 /\ AppStartInterview
    \/ AppCalls
NextLongTalk == Turns \/ CapClock \/ Closing
Next == Dialogue \/ ServerErrors \/ Ending \/ Closing \/ Restart \/ MediaFaults

\* The interview without failures; with server errors; with its end and the
\* close of the socket; with socket closes and restarts; with everything.
SpecDialogue == Init /\ [][NextDialogue]_vars
SpecErrors == Init /\ [][NextErrors]_vars
SpecEnding == Init /\ [][NextEnding]_vars
SpecRestart == Init /\ [][NextRestart]_vars
SpecResponses == InitResponses /\ [][NextResponses]_vars
SpecVad == Init /\ [][NextVad]_vars
SpecSilence == Init /\ [][NextSilence]_vars
SpecPlayback == Init /\ [][NextPlayback]_vars
SpecWatchdog == Init /\ [][NextWatchdog]_vars
SpecBranches == Init /\ [][NextBranches]_vars
SpecLongTalk == Init /\ [][NextLongTalk]_vars

\* An Audio element that was started reports one of its outcomes (ended,
\* error, rejected play()), and a timer that was set fires.
PlaybackOutcome == AudioEnded \/ AudioError \/ AudioPlayRejected
SpecPlaybackLive ==
    /\ Init /\ [][NextPlayback]_vars
    /\ WF_vars(PlaybackOutcome)
    /\ WF_vars(SettleTimeout)
    /\ WF_vars(ListenTimerFires)
    /\ WF_vars(ErrorTimerFires)

\* Time passes; the interval of the VAD fires while it is set; the browser
\* delivers the events a stopped recorder queued, completes the encodings,
\* reports the outcome of a playback and fires the timers that were set.
VadIntervalFires == \E f \in Frames : VadTick(f)
RecorderEvents == (\E full \in BOOLEAN : RecorderFinalData(full)) \/ RecorderStopped
SpecLongTalkLive ==
    /\ Init /\ [][NextLongTalk]_vars
    /\ WF_vars(CapClock)
    /\ WF_vars(VadIntervalFires)
    /\ WF_vars(RecorderEvents)
    /\ WF_vars(PlaybackOutcome)
    /\ WF_vars(SettleTimeout)
    /\ WF_vars(ListenTimerFires)
\* The server answers what it owes (the greeting, a stream_ready for every
\* audio_stream_start, a response for every audio and audio_commit), and the
\* browser delivers the queued recorder events, the results of the blob
\* encodings, the end of a started playback and the timers.
ServerAnswers ==
    \/ RecvGreeting(TRUE)
    \/ \E text \in Texts : RecvResponse(text, TRUE)
    \/ RecvStreamReady
Encodings ==
    \/ \E i \in 1..Len(chunkReads) : ChunkEncoded(i)
    \/ \E i \in 1..Len(batchReads) : BatchEncoded(i, TRUE)
\* The callbacks of an interview in which nothing fails, no read of a blob
\* either.
NextAnswered ==
    \/ Clock
    \/ sessionNo = 0 /\ ConnectWebSocket
    \/ WsOpen
    \/ ServerAnswers
    \/ AudioEnded
    \/ SettleTimeout
    \/ ListenTimerFires
    \/ VadIntervalFires
    \/ RecorderData
    \/ RecorderEvents
    \/ Encodings
SpecAnswered ==
    /\ Init /\ [][NextAnswered]_vars
    /\ WF_vars(WsOpen)
    /\ WF_vars(ServerAnswers)
    /\ WF_vars(RecorderEvents)
    /\ WF_vars(Encodings)
    /\ WF_vars(AudioEnded)
    /\ WF_vars(SettleTimeout)
    /\ WF_vars(ListenTimerFires)

Spec == Init /\ [][Next]_vars

\* ------------------------------------------------------------ the claims
\* The controller states of the specification, read from the engine: AI
\* audio is queued or playing and the queue has not drained; a recording was
\* stopped and its response is awaited or being handled.
AiSpeaking == isPlayingQueueRef
Processing == owed.response > 0 \/ processingResponseRef

\* C1: the VAD never classifies a tick while the controller is AiSpeaking or
\* Processing: every tick of the interval that gets past the early returns
\* of checkVoiceActivity is taken in another controller state.
VadSilentWhileBusy ==
    [][(\E f \in Frames : VadTick(f)) /\ TickEvaluates(State)
          => ~(AiSpeaking \/ Processing)]_vars

\* A tick is about to detect sustained silence: it gets to the silence branch
\* of the classification with a silence longer than SILENCE_DURATION.
SustainedSilence ==
    /\ TickEvaluates(State)
    /\ ~MaxDurationReached(State) /\ ~ForceStopReached(State)
    /\ ~LowActivityReached(State)
    /\ isRecordingRef
    /\ silenceStartRef # 0
    /\ now - silenceStartRef > SILENCE_DURATION

\* The speech of the recording lies between its onset and the first silent
\* tick after its last speech tick, so the accumulated speech duration is at
\* most the distance of the two.
SpeechTooShort ==
    /\ speechStartRef # 0
    /\ silenceStartRef - speechStartRef < SPEECH_MIN_DURATION

\* C2: when sustained silence is detected and the accumulated speech is
\* shorter than SPEECH_MIN_DURATION, the tick cancels the recording (the
\* recorder is stopped, the buffer discarded, nothing queued for sending) and
\* leaves the controller listening with the VAD armed and both timers cleared.
ShortSpeechCancelled ==
    [][(\E f \in Frames : ~IsLikelySpeech(f) /\ VadTick(f))
          /\ SustainedSilence /\ SpeechTooShort
          => /\ ~isRecordingRef' /\ recState' = "inactive"
             /\ audioChunksRef' = <<>>
             /\ isListeningRef' /\ vadIntervalRef'
             /\ silenceStartRef' = 0 /\ speechStartRef' = 0]_vars

\* What cleanupResources releases: the transport (the socket is closing or
\* closed and wsRef is null), the microphone, the audio context and the VAD
\* interval.  The primed copy reads the state after a step.
Released ==
    /\ ~wsRef /\ wsReady \in {"CLOSING", "CLOSED"}
    /\ ~mediaStreamRef /\ liveStreams = 0
    /\ ~audioContextRef
    /\ ~vadIntervalRef

\* C3: when the 15 s timer of endInterview fires and no assessment has
\* arrived (the session is still ending), its callback leaves the ending
\* state and releases the transport, the microphone, the audio context and
\* the VAD interval.
AssessTimeoutCleansUp ==
    [][AssessTimeout /\ isEndingInterview /\ ~assessment
          => ~isEndingInterview' /\ Released']_vars

\* The session that received its greeting is over: its assessment arrived or
\* its socket has closed.
SessionOver ==
    /\ sessionNo > 0 /\ conversationIdRef = sessionNo
    /\ assessment \/ wsReady = "CLOSED"

\* C4: in every state where the session is over, whatever the exit path, no
\* VAD interval runs, no microphone stream is live and the channel is not
\* open.
NothingOutlivesSession ==
    SessionOver =>
        /\ ~vadIntervalRef
        /\ liveStreams = 0
        /\ wsReady \in {"CLOSING", "CLOSED"}

\* A callback other than the playback events that resume the suspended
\* handler: the handler of an inbound message, a VAD tick, a timer.
OtherCallback ==
    \/ \E ok \in BOOLEAN : RecvGreeting(ok)
    \/ \E text \in Texts, ok \in BOOLEAN : RecvResponse(text, ok)
    \/ RecvAssessment
    \/ RecvStreamReady
    \/ \E answers \in {"none", "response", "ready"} : RecvError(answers)
    \/ \E f \in Frames : VadTick(f)
    \/ ListenTimerFires
    \/ ErrorTimerFires
    \/ AssessTimeout

\* The controller state the transitions are about.
ControllerState ==
    <<isListeningRef, vadIntervalRef, isRecordingRef, processingResponseRef,
      isPlayingQueueRef, audioQueueRef>>

\* C5: while the handler of an inbound message is suspended awaiting
\* playback, no other message handler, VAD tick or timer callback changes
\* the controller state.
OneTransitionAtATime ==
    [][runner # "none" /\ OtherCallback => UNCHANGED ControllerState]_vars

\* The stop event of a recorder that stopRecording (cancelRecording) stopped
\* is being handled.
StopOf(by) ==
    /\ RecorderStopped
    /\ Head(recEvents).by = by

\* The step hands a finalization of the recorder whose stop event it handles
\* to the transport: its audio_commit in streaming mode, the encoding of its
\* blob for the audio message in batch mode.
Finalizes ==
    LET r == Head(recEvents).rec
    IN  IF isStreamingModeRef
        THEN \E i \in 1..Len(wire') :
                wire'[i].type = "audio_commit" /\ wire'[i].rec = r
        ELSE \E i \in 1..Len(batchReads') : batchReads'[i].rec = r

\* C6: every recording that stopRecording stopped is finalized when its stop
\* event is handled, whatever was captured and whether or not stream_ready
\* has been received.
StopAlwaysFinalizes == [][StopOf("stopRecording") => Finalizes]_vars

\* C7: a recording that cancelRecording stopped is never finalized: when the
\* recorder's stop event is handled after the cancel, no audio_commit is sent
\* and no blob is handed over for an audio message.
CancelNeverFinalizes == [][StopOf("cancelRecording") => ~Finalizes]_vars

\* The i-th pending encoding completes and its chunk goes out as an
\* audio_chunk message.
ChunkGoesOut(i) ==
    /\ ChunkEncoded(i)
    /\ wire' # <<>>

\* C8: the audio_chunk messages of a recording go out in capture order, each
\* chunk once.  Every chunk handed to sendAudioChunk is sent when its
\* encoding completes, so the order holds only if, whenever a chunk goes
\* out, no encoding of a chunk of the same recording captured before it, and
\* no second encoding of the chunk itself, is still pending.
ChunksInCaptureOrder ==
    [][\A i \in 1..Len(chunkReads) :
          ChunkGoesOut(i) =>
              \A j \in 1..Len(chunkReads) :
                  j # i /\ ChunkRec(chunkReads[j]) = ChunkRec(chunkReads[i])
                      => chunkReads[j][2] > chunkReads[i][2]]_vars

MessagesCarrySessionId ==
    \A i \in 1..Len(wire) :
        wire[i].type \in {"audio", "audio_stream_start", "audio_chunk",
                          "audio_commit", "end_interview"}
            => wire[i].cid = wire[i].session

\* C11: at most one recorder is recording at any time: an onset or a call of
\* startRecording while a recording is active creates no second recorder.
OneRecordingAtATime == Cardinality(activeRecorders) <= 1

\* A recording is active and a tick with strong speech was classified at a
\* clock reading after its start.
SpeechTickWhileRecording ==
    /\ activeRecorders # {} /\ isRecordingRef
    /\ lastStrongSpeechRef > recordingStartTimeRef
    /\ recordingStartTimeRef # 0

\* C12: at most one audio item plays at any time, the delay after its end
\* included: no item is started while another plays or is in that delay.
OneAudioAtATime == audioElements <= 1

\* A response arrived and was queued while an item was playing.
ResponseQueuedBehindAudio ==
    /\ audioElements = 1
    /\ Len(audioQueueRef) > 0
    /\ audioQueueRef[1].kind = "response"

\* The callback in which the message handler calls playAudio with item: the
\* greeting, or a response the duplicate filter lets through.
Enqueues(item) ==
    \/ item.kind = "greeting" /\ RecvGreeting(item.ok)
    \/ /\ item.kind = "response"
       /\ \E text \in Texts : ~IsDuplicate(State, text) /\ RecvResponse(text, item.ok)

\* C13: playAudio called while the queue holds items not yet played leaves
\* exactly one pending item, the new one, and does not touch the item that
\* is playing; so does every further call.
EnqueueKeepsOnlyNewest ==
    [][\A kind \in {"greeting", "response"}, ok \in BOOLEAN :
         LET item == [kind |-> kind, ok |-> ok]
         IN  (Len(audioQueueRef) > 0 /\ Enqueues(item))
                => /\ audioQueueRef' = <<item>>
                   /\ playback' = playback
                   /\ currentAudioRef' = currentAudioRef
                   /\ audioElements' = audioElements]_vars

\* A queued item was cleared unplayed by a later playAudio, whose item is the
\* one pending behind the item that plays.
StaleItemDropped ==
    droppedAudio > 0 /\ Len(audioQueueRef) = 1 /\ playback = "playing"

\* The speech of the recording, from its onset to the first silent tick after
\* its last speech tick, lasted SPEECH_MIN_DURATION or longer.
EnoughSpeech ==
    /\ speechStartRef # 0 /\ silenceStartRef # 0
    /\ silenceStartRef - speechStartRef >= SPEECH_MIN_DURATION

\* C14: a silent tick that finds the recording silent for longer than
\* SILENCE_DURATION after speech of SPEECH_MIN_DURATION or more stops the
\* recorder and disarms the VAD, and the recording is then finalized: when
\* the recorder's stop event is handled, its utterance is handed to the
\* transport.
SilenceStopHandsOver ==
    [][/\ (\E f \in Frames : ~IsLikelySpeech(f) /\ VadTick(f))
             /\ SustainedSilence /\ EnoughSpeech
          => /\ ~isRecordingRef' /\ recState' = "inactive"
             /\ ~isListeningRef' /\ ~vadIntervalRef'
             /\ \E i \in 1..Len(recEvents') :
                   /\ recEvents'[i].ev = "stop"
                   /\ recEvents'[i].by = "stopRecording"
                   /\ recEvents'[i].rec = mediaRecorderRef
       /\ StopOf("stopRecording") /\ EnoughSpeech => Finalizes]_vars

\* What a dropped response must leave alone: the conversation, the playback
\* queue, the tracking state of the duplicate filter, and the listening and
\* recording state.
ResponseFrame ==
    <<conversation, audioQueueRef, isPlayingQueueRef, playback, currentAudioRef,
      pendingListenRef, lastResponseTimeRef, lastResponseTextRef,
      processingResponseRef, isListeningRef, vadIntervalRef, isRecordingRef,
      recState, audioChunksRef, recEvents, listenTimers>>

\* C15: a response with the text of the previously accepted response that
\* arrives within RESPONSE_DEBOUNCE_MS of it is dropped: no conversation
\* entry, no audio queued, and the tracking state of the filter and the
\* listening and recording state stay as they were.
DuplicateDropped ==
    [][\A text \in Texts, ok \in BOOLEAN :
          /\ RecvResponse(text, ok)
          /\ text = lastResponseTextRef
          /\ now - lastResponseTimeRef < RESPONSE_DEBOUNCE_MS
          => UNCHANGED ResponseFrame]_vars

\* The last ignored response had the text of the accepted one and arrived
\* within the window of it, while no response was being processed.
DuplicateWasIgnored ==
    /\ ignored.at # 0
    /\ ignored.text = lastResponseTextRef
    /\ lastResponseTimeRef <= ignored.at
    /\ ignored.at - lastResponseTimeRef < RESPONSE_DEBOUNCE_MS
    /\ ~processingResponseRef

\* The events of a session, as the steps in which they are observed: a
\* message of a type is put on the transport, the greeting or an accepted
\* response starts to play, a recorder is created, the assessment is shown.
Sent(type) == \E i \in 1..Len(wire') : wire'[i].type = type
UtteranceSent == Sent("audio") \/ Sent("audio_commit")
GreetingPlayed == RecvGreeting(TRUE)
ResponsePlayed == \E text \in Texts : ~IsDuplicate(State, text) /\ RecvResponse(text, TRUE)
RecordingStarted == recNo' = recNo + 1
AssessmentShown == assessment' /\ ~assessment

\* C16: the events of a session are observed once per turn and in the order
\* start_interview sent, greeting played, recording started, utterance sent,
\* response played, recording started, end_interview sent, assessment
\* shown.  conversation counts the greeting and the responses played and
\* recNo the recordings started, so the n-th recording starts after n
\* entries, its utterance is sent once, after it and before the next entry,
\* and before end_interview is sent; end_interview is sent once and the
\* assessment is shown after it.
EndToEndOrder ==
    [][/\ GreetingPlayed => conversation = 0 /\ recNo = 0
       /\ RecordingStarted => conversation = recNo + 1 /\ ~isPlayingQueueRef
       /\ UtteranceSent => /\ conversation = recNo /\ owed.response = 0
                           /\ ~isEndingInterview
       /\ ResponsePlayed => conversation = recNo /\ ~isEndingInterview
       /\ Sent("end_interview") => ~isEndingInterview
       /\ AssessmentShown => isEndingInterview]_vars

\* C17: once the queue loop runs for an accepted greeting or response, the
\* queue drains, whatever the outcome of each playback, and the controller
\* then arms the VAD.
QueueDrainsThenListens ==
    /\ isPlayingQueueRef ~> ~isPlayingQueueRef
    /\ isPlayingQueueRef ~> (isListeningRef /\ vadIntervalRef)

\* C18: a server error message does not end the session: the socket stays
\* open and the re-arm timer is set.  When the timer fires, listening is
\* armed at once if nothing is playing or being processed; otherwise it is
\* left as it is and queued for the end of playback; in both cases the VAD
\* is armed in the end.
ErrorRearmsListening ==
    /\ [][(\E answers \in {"none", "response", "ready"} : RecvError(answers))
             => /\ connected' /\ wsReady' = "OPEN"
                /\ errorTimers' = errorTimers + 1]_vars
    /\ [][ErrorTimerFires
             => IF AiSpeaking \/ Processing
                THEN isListeningRef' = isListeningRef /\ pendingListenRef'
                ELSE isListeningRef' /\ vadIntervalRef']_vars
    /\ (errorTimers > 0) ~> (isListeningRef /\ vadIntervalRef)

SpeechIffLoudAndNoClick ==
    [][\A f \in Frames \cup EdgeFrames :
          LET loud == f.sum > MIN_SPEECH_VOLUME * BAND_BINS
              click == f.peak > CLICK_PEAK /\ f.sum < CLICK_AVERAGE * BAND_BINS
          IN  /\ VadTick(f) /\ TickEvaluates(State)
              /\ ~MaxDurationReached(State) /\ ~ForceStopReached(State)
              /\ ~LowActivityReached(State)
              => ((isRecordingRef' /\ silenceStartRef' = 0) <=> (loud /\ ~click))]_vars

\* A recording that a tick taken as speech started and in which a later
\* tick was taken as silence.
SpeechThenSilenceHeard ==
    isRecordingRef /\ speechStartRef # 0 /\ silenceStartRef # 0

\* C21: a tick taken while listening, with no recording active, nothing
\* playing and no response being processed, whose mean is above
\* MIN_SPEECH_VOLUME (and which is no click) starts a recording in that very
\* callback: a new recorder runs on the microphone stream, and the speech
\* start and the recording start are the time of the tick.
OnsetStartsRecording ==
    [][\A f \in Frames \cup EdgeFrames :
          /\ VadTick(f) /\ TickEvaluates(State)
          /\ ~isRecordingRef
          /\ IsLikelySpeech(f)
          => /\ isRecordingRef' /\ recState' = "recording"
             /\ recNo' = recNo + 1 /\ mediaRecorderRef' = recNo + 1
             /\ activeRecorders' = {recNo + 1}
             /\ speechStartRef' = now
             /\ recordingStartTimeRef' = now]_vars

\* C22: no recording stays active: a recorder that has been recording for
\* longer than MAX_RECORDING_DURATION is stopped in the end, also when no
\* tick is classified as silence, when listening was stopped and when the
\* socket closed while it was recording.
RecordingStopsAtCap ==
    (activeRecorders # {} /\ now - recStartedAt > MAX_RECORDING_DURATION)
        ~> (activeRecorders = {})

\* C23: force-stop is the longer of the two caps.  A failsafe that stops a
\* recording in which no tick was taken as silence since the last speech is
\* the max-duration one, and the force-stop failsafe fires only for a
\* recording that has been running for longer than MAX_RECORDING_DURATION.
ForceStopIsTheLongerCap ==
    [][(\E f \in Frames : VadTick(f)) /\ TickEvaluates(State) /\ Timed(State)
          => /\ (failsafeLog' \in {"max", "force"} /\ silenceStartRef = 0)
                    => failsafeLog' = "max"
             /\ failsafeLog' = "force"
                    => now - recStartedAt > MAX_RECORDING_DURATION]_vars

\* The end_interview message of the session has been sent: the interview is
\* ending, or its assessment has arrived.
EndSent == isEndingInterview \/ assessment

\* C24: once end_interview has been sent, no callback puts an audio,
\* audio_stream_start, audio_chunk or audio_commit message on the transport,
\* creates a recorder or arms the VAD, whatever timers and inbound messages
\* are still pending; and end_interview is not sent a second time.
QuietAfterEnd ==
    [][EndSent
          => /\ ~(\E type \in {"audio", "audio_stream_start", "audio_chunk",
                               "audio_commit", "end_interview"} : Sent(type))
             /\ recNo' = recNo
             /\ vadIntervalRef' => vadIntervalRef]_vars

\* C25: in streaming mode the audio_commit of an utterance is the last
\* message of the utterance: no audio_chunk of a recording goes out after the
\* audio_commit of that recording, although the encoding of a chunk
\* completes in a callback of its own.
CommitIsLast ==
    [][\A i \in 1..Len(chunkReads) :
          ChunkGoesOut(i) => ChunkRec(chunkReads[i]) \notin committed]_vars

\* The recording has been running for longer than LOW_ACTIVITY_TIMEOUT_MS
\* and the last tick with a mean above 1.5 times MIN_SPEECH_VOLUME (or the
\* onset, if there was none since) lies further back than that.
NoStrongSpeechLately ==
    /\ isRecordingRef /\ recStartedAt # 0
    /\ now - recStartedAt > LOW_ACTIVITY_TIMEOUT_MS
    /\ now - lastStrongSpeechRef > LOW_ACTIVITY_TIMEOUT_MS

\* C26: a tick taken while a recording is active and no strong speech was
\* heard for longer than LOW_ACTIVITY_TIMEOUT_MS stops the recording, whatever
\* its own frame and however many weaker ticks were taken as speech in
\* between, and the recording is then finalized: when the recorder's stop
\* event is handled, its utterance is handed to the transport.
LowActivityStopsAndFinalizes ==
    [][/\ (\E f \in Frames : VadTick(f)) /\ TickEvaluates(State)
             /\ NoStrongSpeechLately
          => /\ ~isRecordingRef' /\ recState' = "inactive"
             /\ \E i \in 1..Len(recEvents') :
                   /\ recEvents'[i].ev = "stop"
                   /\ recEvents'[i].by = "stopRecording"
                   /\ recEvents'[i].rec = mediaRecorderRef
       /\ StopOf("stopRecording") /\ failsafeLog = "low" => Finalizes]_vars

\* C27: when the user starts an interview again in the same component, the
\* engine is as at the start of a first interview: not listening and no VAD
\* interval, no recording, the playback queue empty with nothing playing and
\* no queue loop running, no response being processed, and the silence and
\* speech timers of the VAD cleared.
SecondInterviewStartsFresh ==
    [][Restart
          => /\ ~isListeningRef' /\ ~vadIntervalRef'
             /\ ~isRecordingRef' /\ recState' = "inactive"
             /\ audioQueueRef' = <<>> /\ ~isPlayingQueueRef'
             /\ playback' = "idle" /\ ~isAudioPlayingRef'
             /\ ~processingResponseRef'
             /\ silenceStartRef' = 0 /\ speechStartRef' = 0]_vars

\* A tick of app.js is about to detect sustained silence: it gets past the
\* early return and the maximum-duration test to the silence branch with a
\* silence longer than SILENCE_DURATION.
AppSustainedSilence ==
    /\ legacy.analyser /\ legacy.isListening
    /\ ~(/\ legacy.recordingStartTime # 0
         /\ now - legacy.recordingStartTime > APP_MAX_RECORDING_DURATION)
    /\ legacy.isRecording
    /\ legacy.silenceStart # 0
    /\ now - legacy.silenceStart > APP_SILENCE_DURATION

SessionRunning ==
    /\ sessionNo > 0 /\ conversationIdRef = sessionNo
    /\ wsReady = "OPEN"
    /\ ~EndSent

\* C29: with a server that answers every message it owes an answer to, from
\* every state of a running session the engine eventually listens or plays
\* AI audio again; in particular listening is re-armed after every
\* stopRecording.
NeverStalls ==
    SessionRunning ~> (isListeningRef \/ isAudioPlayingRef)


\* C30: in batch mode every blob handed to sendAudio for recorder r, and
\* every audio message sent for it, holds the chunks of r and no others, in
\* the order of their capture from the first one on; and a tick that starts
\* a recording while the stop event of a recorder stopped by stopRecording
\* is still queued does not empty a buffer that holds chunks.
BatchCarriesItsOwnChunks ==
    [][/\ \A i \in 1..Len(batchReads') :
              \A j \in 1..Len(batchReads'[i].chunks) :
                  batchReads'[i].chunks[j] = <<batchReads'[i].rec, j>>
       /\ \A i \in 1..Len(wire') :
              wire'[i].type = "audio"
                  => \A j \in 1..Len(wire'[i].chunks) :
                         wire'[i].chunks[j] = <<wire'[i].rec, j>>
       /\ /\ ~isStreamingModeRef
          /\ \E f \in Frames : VadTick(f)
          /\ recNo' = recNo + 1
          /\ \E i \in 1..Len(recEvents) :
                 recEvents[i].ev = "stop" /\ recEvents[i].by = "stopRecording"
          => audioChunksRef = <<>>]_vars

====
